---- MODULE Spec2Model ----
(***************************************************************************)
(* Model of packages/canvas/canvas-graphics/src/graphics.ts:               *)
(*   - resolve(): depth-first flattening of a style list along "use"       *)
(*   - open()/fill()/stroke(): the paint dispatcher bound to one context   *)
(*   - Graphics.prototype.generateCanvasTexture and its lazily built       *)
(*     module-level canvasRenderer                                         *)
(***************************************************************************)
EXTENDS Integers, Sequences, FiniteSets, TLC

(***************************************************************************)
(* Bounds of the model                                                     *)
(***************************************************************************)
\* total number of entries of all "use" lists of a style graph (resolve runs)
MaxEdges == 3
\* length of an array passed to resolve
MaxInput == 2
\* total number of "use" entries of a style graph (paint runs)
MaxPaintEdges == 2
\* length of an array passed to fill / stroke
MaxPaintInput == 1
\* number of generateCanvasTexture calls of one run
MaxCalls == 3

\* style objects, told apart by identity
Styles == {"a", "b", "c"}

\* the JavaScript value undefined
Undefined == "undefined"

RECURSIVE SeqsUpTo(_, _)
SeqsUpTo(S, n) ==
    IF n = 0 THEN {<<>>}
    ELSE LET shorter == SeqsUpTo(S, n - 1)
         IN  shorter \cup {Append(q, x) : q \in {r \in shorter : Len(r) = n - 1}, x \in S}

RECURSIVE SumOver(_, _)
SumOver(f, D) ==
    IF D = {} THEN 0
    ELSE LET x == CHOOSE y \in D : TRUE
         IN  f[x] + SumOver(f, D \ {x})

(***************************************************************************)
(* IStyle<S>: "use" is optional; when present it is an array of styles.    *)
(* has = FALSE models a style without the property.                        *)
(***************************************************************************)
UseLists(n) ==
    {[has |-> FALSE, list |-> <<>>]} \cup {[has |-> TRUE, list |-> q] : q \in SeqsUpTo(Styles, n)}

Graphs(n) ==
    {g \in [Styles -> UseLists(n)] : SumOver([s \in Styles |-> Len(g[s].list)], Styles) <= n}

\* the graphs in which a style has the "use" property only when it uses a style
PaintGraphs(n) == {g \in Graphs(n) : \A s \in Styles : g[s].has = (g[s].list # <<>>)}

\* IStyles<S> = IStyle<S> | IStyle<S>[]
StyleInputs(n) ==
    {[isArray |-> FALSE, style |-> s, items |-> <<>>] : s \in Styles}
        \cup {[isArray |-> TRUE, style |-> Undefined, items |-> q] : q \in SeqsUpTo(Styles, n)}

\* [styles].flat()
Flat(x) == IF x.isArray THEN x.items ELSE <<x.style>>

VARIABLES
    use,        \* the "use" property of every style
    props,      \* the other own properties of every style
    op,         \* the function running: "none", "resolve", "fill", "stroke", "texture"
    pc,         \* its position
    input,      \* its argument
    styles,     \* open(): the local `styles` (normalised, then resolved)
    scoped,     \* open(): TRUE in the else branch (save ... restore)
    frames,     \* resolve(): the activation records [list, i, res], innermost last
    seen,       \* resolve(): the WeakSet shared by the recursion
    ctx,        \* the properties of the drawing context
    stack,      \* the states saved by context.save()
    log,        \* the calls and assignments made on the context, in order
    ctx0,       \* the properties of the context when fill / stroke was called
    canvasRenderer, \* the module-level renderer: 0 while unset, else its instance
    constructed,    \* number of CanvasRenderer instances constructed
    tempMatrix,     \* the module-level scratch matrix
    renders,        \* the render calls made: [graphics, renderer, matrix]
    texture         \* the value returned by the last generateCanvasTexture

vars == <<use, props, op, pc, input, styles, scoped, frames, seen,
          ctx, stack, log, ctx0, canvasRenderer, constructed, tempMatrix, renders, texture>>

styleVars == <<use, props>>
callVars == <<op, input>>
resolveVars == <<frames, seen>>
surfaceVars == <<ctx, stack, log, ctx0>>
textureVars == <<canvasRenderer, constructed, tempMatrix, renders, texture>>

(***************************************************************************)
(* Style properties.  A JavaScript value is modelled by a token: "0.5" is  *)
(* the number 0.5, "true" the boolean true, Undefined the value undefined. *)
(* A style's own properties are a function whose domain is the set of      *)
(* property names the object has (`prop in s`).                            *)
(***************************************************************************)
PropNames == {"alpha", "blendMode", "paint", "width", "cap", "join", "miterLimit", "clip"}

\* JavaScript truthiness of a value (the test of `if (use('clip'))`)
Falsy == {Undefined, "false", "0", "", "null", "NaN"}
Truthy(v) == v \notin Falsy

\* the styles of the runs: A = {paint:"blue"}, B = {paint:"red", alpha:0.5},
\* C = {paint:"red", width:2, clip:true}
ScenarioProps ==
    [s \in Styles |->
        CASE s = "a" -> [p \in {"paint"} |-> "blue"]
          [] s = "b" -> [p \in {"paint", "alpha"} |-> IF p = "paint" THEN "red" ELSE "0.5"]
          [] OTHER   -> [p \in {"paint", "width", "clip"} |->
                            CASE p = "paint" -> "red" [] p = "width" -> "2" [] OTHER -> "true"]]

\* A = {alpha:0.5}, B = {paint:undefined, blendMode:"multiply", cap:"round", clip:false},
\* C = {alpha:0.25, width:4, join:"bevel", miterLimit:5, clip:true}
OtherProps ==
    [s \in Styles |->
        CASE s = "a" -> [p \in {"alpha"} |-> "0.5"]
          [] s = "b" -> [p \in {"paint", "blendMode", "cap", "clip"} |->
                            CASE p = "paint" -> Undefined [] p = "blendMode" -> "multiply"
                              [] p = "cap" -> "round" [] OTHER -> "false"]
          [] OTHER   -> [p \in {"alpha", "width", "join", "miterLimit", "clip"} |->
                            CASE p = "alpha" -> "0.25" [] p = "width" -> "4"
                              [] p = "join" -> "bevel" [] p = "miterLimit" -> "5"
                              [] OTHER -> "true"]]

Palettes == {ScenarioProps, OtherProps}

(***************************************************************************)
(* The drawing context: its settable properties and its clipping region,   *)
(* as a record.                                                            *)
(***************************************************************************)
CanvasDefaults ==
    [fillStyle |-> "#000000", strokeStyle |-> "#000000", lineWidth |-> "1",
     lineCap |-> "butt", lineJoin |-> "miter", miterLimit |-> "10",
     globalAlpha |-> "1", globalCompositeOperation |-> "source-over",
     clipRegion |-> "canvas"]

CustomAmbient ==
    [fillStyle |-> "green", strokeStyle |-> "black", lineWidth |-> "3",
     lineCap |-> "square", lineJoin |-> "round", miterLimit |-> "4",
     globalAlpha |-> "0.8", globalCompositeOperation |-> "lighter",
     clipRegion |-> "canvas"]

Ambients == {CanvasDefaults, CustomAmbient}

(***************************************************************************)
(* Graphics objects of the texture runs: local transform and local bounds. *)
(***************************************************************************)
IdentityMatrix == [a |-> 1, b |-> 0, c |-> 0, d |-> 1, tx |-> 0, ty |-> 0]

GraphicsObjects == {"g1", "g2"}

LocalTransform(g) ==
    IF g = "g1" THEN [a |-> 1, b |-> 0, c |-> 0, d |-> 1, tx |-> 5, ty |-> 7]
    ELSE [a |-> 0, b |-> 1, c |-> -1, d |-> 0, tx |-> 2, ty |-> -3]

LocalBounds(g) ==
    IF g = "g1" THEN [x |-> 1, y |-> 2, width |-> 10, height |-> 20]
    ELSE [x |-> -4, y |-> 0, width |-> 6, height |-> 6]

ScaleModes == {"NEAREST", "LINEAR"}
Resolutions == {1, 2}

(***************************************************************************)
(* Initial states                                                          *)
(***************************************************************************)
InitCommon ==
    /\ op = "none"
    /\ pc = "idle"
    /\ input = [isArray |-> TRUE, style |-> Undefined, items |-> <<>>]
    /\ styles = <<>>
    /\ scoped = FALSE
    /\ frames = <<>>
    /\ seen = {}
    /\ stack = <<>>
    /\ log = <<>>
    /\ ctx0 = ctx
    /\ canvasRenderer = 0
    /\ constructed = 0
    /\ tempMatrix = IdentityMatrix
    /\ renders = <<>>
    /\ texture = Undefined

\* resolve runs: every style graph of at most MaxEdges "use" entries
InitResolve ==
    /\ use \in Graphs(MaxEdges)
    /\ props = ScenarioProps
    /\ ctx = CanvasDefaults
    /\ InitCommon

\* paint runs: smaller graphs, two sets of style properties, two ambient states
InitPaint ==
    /\ use \in PaintGraphs(MaxPaintEdges)
    /\ props \in Palettes
    /\ ctx \in Ambients
    /\ InitCommon

\* texture runs
InitTexture ==
    /\ use = [s \in Styles |-> [has |-> FALSE, list |-> <<>>]]
    /\ props = ScenarioProps
    /\ ctx = CanvasDefaults
    /\ InitCommon

(***************************************************************************)
(* resolve(styles, seen = new WeakSet())                                   *)
(***************************************************************************)
\* the activation record of a call resolve(list, seen): const res = []
NewFrame(list) == [list |-> list, i |-> 1, res |-> <<>>]

\* seen.has(s)
SeenHas(set, s) == s \in set

\* seen.add(s)
SeenAdd(set, s) == set \cup {s}

\* a push that puts the style in front of the result instead of at its end
PushFront(res, s) == <<s>> \o res

\* res.push(s)
Push(res, s) == Append(res, s)

\* a recursion whose result is dropped
PushAllDropped(res, sub) == res

\* a recursion whose result is put in front of the style that uses it
PushAllFront(res, sub) == sub \o res

\* res.push(...sub)
PushAll(res, sub) == res \o sub

\* if (s.use)
HasUse(s) == use[s].has

Top == frames[Len(frames)]

\* the call of resolve on its own
CallResolve(x) ==
    /\ pc = "idle"
    /\ op' = "resolve"
    /\ input' = x
    /\ styles' = Flat(x)
    /\ frames' = <<NewFrame(Flat(x))>>
    /\ seen' = {}
    /\ pc' = "resolve"
    /\ UNCHANGED <<styleVars, scoped, surfaceVars, textureVars>>

\* for (const s of styles) with seen.has(s): nothing is done for s
ResolveSkip ==
    /\ pc = "resolve"
    /\ Top.i <= Len(Top.list)
    /\ SeenHas(seen, Top.list[Top.i])
    /\ frames' = [frames EXCEPT ![Len(frames)].i = @ + 1]
    /\ UNCHANGED <<styleVars, callVars, pc, styles, scoped, seen, surfaceVars, textureVars>>

\* for (const s of styles) with !seen.has(s): add, push, and recurse into s.use
ResolveVisit ==
    /\ pc = "resolve"
    /\ Top.i <= Len(Top.list)
    /\ LET s == Top.list[Top.i]
       IN  /\ ~SeenHas(seen, s)
           /\ seen' = SeenAdd(seen, s)
           /\ IF HasUse(s)
              THEN frames' = Append([frames EXCEPT ![Len(frames)].res = Push(@, s)],
                                    NewFrame(use[s].list))
              ELSE frames' = [frames EXCEPT ![Len(frames)].res = Push(@, s),
                                            ![Len(frames)].i = @ + 1]
    /\ UNCHANGED <<styleVars, callVars, pc, styles, scoped, surfaceVars, textureVars>>

\* return res: to the recursive call of line 95, or to the caller of resolve
ResolveReturn ==
    /\ pc = "resolve"
    /\ Top.i > Len(Top.list)
    /\ IF Len(frames) > 1
       THEN /\ frames' = [SubSeq(frames, 1, Len(frames) - 1)
                             EXCEPT ![Len(frames) - 1].res = PushAll(@, Top.res),
                                    ![Len(frames) - 1].i = @ + 1]
            /\ UNCHANGED <<pc, styles>>
       ELSE /\ frames' = <<>>
            /\ styles' = Top.res
            /\ pc' = IF op = "resolve" THEN "done" ELSE "save"
    /\ UNCHANGED <<styleVars, callVars, scoped, seen, surfaceVars, textureVars>>

NextResolve ==
    \/ \E x \in StyleInputs(MaxInput) : CallResolve(x)
    \/ ResolveSkip
    \/ ResolveVisit
    \/ ResolveReturn

SpecResolve == InitResolve /\ [][NextResolve]_vars

\* resolve is synchronous code: a started call keeps running
FairResolve == SpecResolve /\ WF_vars(ResolveSkip \/ ResolveVisit \/ ResolveReturn)

(***************************************************************************)
(* Paint: open(styles, cb), fill(styles), stroke(styles)                   *)
(***************************************************************************)
\* a lookup that lets the last style of the list win
RECURSIVE ScanLast(_, _, _, _)
ScanLast(P, list, k, prop) ==
    IF k > Len(list) THEN Undefined
    ELSE IF \E j \in (k + 1)..Len(list) : prop \in DOMAIN P[list[j]]
         THEN ScanLast(P, list, k + 1, prop)
         ELSE IF prop \in DOMAIN P[list[k]] THEN P[list[k]][prop]
              ELSE Undefined

\* the loop of `use` from index k on, over the styles `list` whose properties
\* are P: the first style that has the property decides
RECURSIVE Scan(_, _, _, _)
Scan(P, list, k, prop) ==
    IF k > Len(list) THEN Undefined
    ELSE IF prop \in DOMAIN P[list[k]] THEN P[list[k]][prop]
         ELSE Scan(P, list, k + 1, prop)

\* the `use` handed to the callback: () => undefined for an empty input,
\* else the first-match lookup over the resolved styles
Use(prop) == IF scoped THEN Scan(props, styles, 1, prop) ELSE Undefined

\* an entry of the log: a call (value Undefined) or an assignment, with the
\* properties of the context at that moment
Entry(name, value) == [name |-> name, value |-> value, state |-> ctx]

\* the first statement of the callback of fill / stroke
CbEntry == IF op = "fill" THEN "fillStyle" ELSE "strokeStyle"

\* an open() that restores in both branches
AfterCbRestore == "restore"

\* what follows cb(use) in open(): context.restore() in the else branch only
AfterCb == IF scoped THEN "restore" ELSE "done"

\* open(styles, cb) up to the test of styles.length
Open(name, x) ==
    /\ pc = "idle"
    /\ op' = name
    /\ input' = x
    /\ styles' = Flat(x)
    /\ ctx0' = ctx
    /\ IF Len(Flat(x)) = 0
       THEN /\ scoped' = FALSE
            /\ pc' = IF name = "fill" THEN "fillStyle" ELSE "strokeStyle"
            /\ UNCHANGED resolveVars
       ELSE /\ scoped' = TRUE
            /\ frames' = <<NewFrame(Flat(x))>>
            /\ seen' = {}
            /\ pc' = "resolve"
    /\ UNCHANGED <<styleVars, ctx, stack, log, textureVars>>

Fill(x) == Open("fill", x)

Stroke(x) == Open("stroke", x)

\* a save whose state is never pushed
SaveNothing == stack

\* context.save()
SaveState == Append(stack, ctx)

Save ==
    /\ pc = "save"
    /\ stack' = SaveState
    /\ log' = Append(log, Entry("save()", Undefined))
    /\ pc' = "alpha"
    /\ UNCHANGED <<styleVars, callVars, styles, scoped, resolveVars, ctx, ctx0, textureVars>>

\* context.<field> = use(<prop>)
Assign(at, field, prop, next) ==
    /\ pc = at
    /\ ctx' = [ctx EXCEPT ![field] = Use(prop)]
    /\ log' = Append(log, Entry(field, Use(prop)))
    /\ pc' = next
    /\ UNCHANGED <<styleVars, callVars, styles, scoped, resolveVars, stack, ctx0, textureVars>>

SetGlobalAlpha == Assign("alpha", "globalAlpha", "alpha", "blend")

SetGlobalCompositeOperation == Assign("blend", "globalCompositeOperation", "blendMode", CbEntry)

SetFillStyle == Assign("fillStyle", "fillStyle", "paint", "fill")

SetStrokeStyle == Assign("strokeStyle", "strokeStyle", "paint", "lineWidth")

SetLineWidth == Assign("lineWidth", "lineWidth", "width", "lineCap")

SetLineCap == Assign("lineCap", "lineCap", "cap", "lineJoin")

SetLineJoin == Assign("lineJoin", "lineJoin", "join", "miterLimit")

\* a stroke that clips whatever the style says
ClipAlways == TRUE

\* if (use('clip'))
ClipWanted == Truthy(Use("clip"))

SetMiterLimit ==
    Assign("miterLimit", "miterLimit", "miterLimit", IF ClipWanted THEN "clip" ELSE "stroke")

\* context.fill()
FillPath ==
    /\ pc = "fill"
    /\ log' = Append(log, Entry("fill()", Undefined))
    /\ pc' = AfterCb
    /\ UNCHANGED <<styleVars, callVars, styles, scoped, resolveVars, ctx, stack, ctx0, textureVars>>

\* context.clip()
ClipPath ==
    /\ pc = "clip"
    /\ ctx' = [ctx EXCEPT !.clipRegion = "path"]
    /\ log' = Append(log, Entry("clip()", Undefined))
    /\ pc' = "stroke"
    /\ UNCHANGED <<styleVars, callVars, styles, scoped, resolveVars, stack, ctx0, textureVars>>

\* context.stroke()
StrokePath ==
    /\ pc = "stroke"
    /\ log' = Append(log, Entry("stroke()", Undefined))
    /\ pc' = AfterCb
    /\ UNCHANGED <<styleVars, callVars, styles, scoped, resolveVars, ctx, stack, ctx0, textureVars>>

\* context.restore()
Restore ==
    /\ pc = "restore"
    /\ IF stack = <<>>
       THEN UNCHANGED <<ctx, stack>>
       ELSE /\ ctx' = stack[Len(stack)]
            /\ stack' = SubSeq(stack, 1, Len(stack) - 1)
    /\ log' = Append(log, Entry("restore()", Undefined))
    /\ pc' = "done"
    /\ UNCHANGED <<styleVars, callVars, styles, scoped, resolveVars, ctx0, textureVars>>

\* the statements of open() and of the callbacks that act on the context and
\* may throw: the assignments and the primitives fill(), clip(), stroke()
ThrowPoints ==
    {"alpha", "blend", "fillStyle", "fill", "strokeStyle", "lineWidth", "lineCap",
     "lineJoin", "miterLimit", "clip", "stroke"}

\* the statement at pc throws: nothing catches it, fill / stroke is left at once
Throw ==
    /\ pc \in ThrowPoints
    /\ log' = Append(log, Entry("throw", pc))
    /\ pc' = "failed"
    /\ UNCHANGED <<styleVars, callVars, styles, scoped, resolveVars, ctx, stack, ctx0, textureVars>>

NextPaint ==
    \/ \E x \in StyleInputs(MaxPaintInput) : Fill(x)
    \/ \E x \in StyleInputs(MaxPaintInput) : Stroke(x)
    \/ ResolveSkip
    \/ ResolveVisit
    \/ ResolveReturn
    \/ Save
    \/ SetGlobalAlpha
    \/ SetGlobalCompositeOperation
    \/ SetFillStyle
    \/ FillPath
    \/ SetStrokeStyle
    \/ SetLineWidth
    \/ SetLineCap
    \/ SetLineJoin
    \/ SetMiterLimit
    \/ ClipPath
    \/ StrokePath
    \/ Restore
    \/ Throw

SpecPaint == InitPaint /\ [][NextPaint]_vars

(***************************************************************************)
(* Graphics.prototype.generateCanvasTexture                                *)
(***************************************************************************)
\* Matrix.invert(), for the matrices of determinant 1 or -1 of the runs
Invert(m) ==
    LET n == m.a * m.d - m.b * m.c
    IN  [a  |-> m.d \div n,
         b  |-> (0 - m.b) \div n,
         c  |-> (0 - m.c) \div n,
         d  |-> m.a \div n,
         tx |-> (m.c * m.ty - m.d * m.tx) \div n,
         ty |-> (0 - (m.a * m.ty - m.b * m.tx)) \div n]

\* a test that finds the renderer unset at every call
RendererUnsetAlways == TRUE

\* if (!canvasRenderer)
RendererUnset == canvasRenderer = 0

\* this.generateCanvasTexture(scaleMode, resolution) on the graphics object g
GenerateCanvasTexture(g, scaleMode, resolution) ==
    /\ pc = "idle"
    /\ Len(renders) < MaxCalls
    /\ LET bounds == LocalBounds(g)
           canvasBuffer == [width |-> bounds.width, height |-> bounds.height,
                            scaleMode |-> scaleMode, resolution |-> resolution]
           inverse == Invert(LocalTransform(g))
           matrix == [inverse EXCEPT !.tx = @ - bounds.x, !.ty = @ - bounds.y]
       IN  /\ IF RendererUnset
              THEN /\ canvasRenderer' = constructed + 1
                   /\ constructed' = constructed + 1
              ELSE UNCHANGED <<canvasRenderer, constructed>>
           /\ tempMatrix' = matrix
           /\ renders' = Append(renders, [graphics |-> g, renderer |-> canvasRenderer',
                                          created |-> RendererUnset,
                                          target |-> canvasBuffer, matrix |-> matrix])
           /\ texture' = [canvas |-> canvasBuffer, scaleMode |-> scaleMode,
                          resolution |-> resolution]
    /\ UNCHANGED <<styleVars, callVars, pc, styles, scoped, resolveVars, surfaceVars>>

NextTexture ==
    \E g \in GraphicsObjects, scaleMode \in ScaleModes, resolution \in Resolutions :
        GenerateCanvasTexture(g, scaleMode, resolution)

SpecTexture == InitTexture /\ [][NextTexture]_vars

(***************************************************************************)
(* Vocabulary of the resolve properties, stated on the style graph alone   *)
(***************************************************************************)
Elems(q) == {q[k] : k \in 1..Len(q)}

Count(q, x) == Cardinality({k \in 1..Len(q) : q[k] = x})

NoDuplicates(q) == \A j, k \in 1..Len(q) : q[j] = q[k] => j = k

\* position of the first occurrence of x in q (0 when absent)
Pos(q, x) == IF x \in Elems(q) THEN CHOOSE k \in 1..Len(q) : q[k] = x /\ \A j \in 1..(k - 1) : q[j] # x
             ELSE 0

\* the styles a style lists in its "use" sequence
Uses(s) == Elems(use[s].list)

\* the styles reachable from the set R through "use" chains that avoid the set X
RECURSIVE ReachAvoiding(_, _)
ReachAvoiding(R, X) ==
    LET start == R \ X
        more  == (start \cup UNION {Uses(s) : s \in start}) \ X
    IN  IF more = start THEN start ELSE ReachAvoiding(more, X)

Reach(R) == ReachAvoiding(R, {})

\* s lies on a cycle of "use" chains (a self-loop included)
OnCycle(s) == s \in Reach(Uses(s))

\* the styles of the cycles through s
CycleOf(s) == {t \in Reach({s}) : s \in Reach(Uses(t))}

\* depth-first pre-order of first visit, by a worklist: the style at the head of
\* the pending list is visited unless it was before, and its "use" list is put
\* in front of the rest
RECURSIVE PreOrder(_, _, _)
PreOrder(pending, visited, out) ==
    IF pending = <<>> THEN out
    ELSE LET s == Head(pending)
         IN  IF s \in visited THEN PreOrder(Tail(pending), visited, out)
             ELSE PreOrder(use[s].list \o Tail(pending), visited \cup {s}, Append(out, s))

Resolved == op = "resolve" /\ pc = "done"

\* resolve(a) or resolve([a]) for a style a on a cycle
CyclicCall == Len(Flat(input)) = 1 /\ OnCycle(Flat(input)[1])

\* C2 (safety part): resolve(a), for a on a cycle of "use" chains, returns every
\* style of the cycle exactly once, and a before every other style of the cycle.
C2_CycleOnce ==
    (Resolved /\ CyclicCall) =>
        LET a == Flat(input)[1]
        IN  \A b \in CycleOf(a) :
                /\ Count(styles, b) = 1
                /\ b # a => Pos(styles, a) < Pos(styles, b)

\* C2: for every style graph whose "use" chains contain a cycle, resolve(a)
\* terminates and returns each style of the cycle exactly once, a preceding b.
C2_CycleTerminates ==
    /\ [](C2_CycleOnce)
    /\ (op = "resolve" /\ pc = "resolve" /\ CyclicCall) ~> Resolved

\* a call on a cycle of two or more styles has returned
C2_Witness ==
    /\ Resolved
    /\ CyclicCall
    /\ Cardinality(CycleOf(Flat(input)[1])) >= 2

\* C3: the list returned by resolve holds exactly the styles reachable from the
\* input through "use" chains, each once, in depth-first pre-order of first
\* visit; an input without "use" chains and without duplicates is returned
\* in the same order, unchanged.
C3_PreOrder ==
    Resolved =>
        /\ Elems(styles) = Reach(Elems(Flat(input)))
        /\ NoDuplicates(styles)
        /\ styles = PreOrder(Flat(input), {}, <<>>)
        /\ ((\A s \in Elems(Flat(input)) : Uses(s) = {}) /\ NoDuplicates(Flat(input)))
               => styles = Flat(input)

\* a call with a duplicate in the input and a dependency shared by two styles
C3_Witness ==
    /\ Resolved
    /\ ~NoDuplicates(Flat(input))
    /\ \E s, t, d \in Elems(styles) : s # t /\ d \in Uses(s) /\ d \in Uses(t) /\ d \notin {s, t}

PropOf(field) ==
    CASE field = "globalAlpha" -> "alpha"
      [] field = "globalCompositeOperation" -> "blendMode"
      [] field = "fillStyle" -> "paint"
      [] field = "strokeStyle" -> "paint"
      [] field = "lineWidth" -> "width"
      [] field = "lineCap" -> "cap"
      [] field = "lineJoin" -> "join"
      [] OTHER -> "miterLimit"

Fields ==
    {"globalAlpha", "globalCompositeOperation", "fillStyle", "strokeStyle",
     "lineWidth", "lineCap", "lineJoin", "miterLimit"}

StrokeFields == {"strokeStyle", "lineWidth", "lineCap", "lineJoin", "miterLimit"}

\* indices of the styles of the list that define the property
Definers(list, prop) == {k \in 1..Len(list) : prop \in DOMAIN props[list[k]]}

\* index of the first style of the list that defines the property
FirstDefiner(list, prop) ==
    CHOOSE k \in Definers(list, prop) : \A j \in Definers(list, prop) : k <= j

\* the value of the first style, in list order, that defines the property
FirstDefined(list, prop) ==
    IF Definers(list, prop) = {} THEN Undefined
    ELSE props[list[FirstDefiner(list, prop)]][prop]

\* the style properties with the property prop of style s set to v
Changed(s, prop, v) ==
    [props EXCEPT ![s] = [q \in DOMAIN props[s] \cup {prop} |->
                              IF q = prop THEN v ELSE props[s][q]]]

Calls(name) == {k \in 1..Len(log) : log[k].name = name}

NumCalls(name) == Cardinality(Calls(name))

Painting == op \in {"fill", "stroke"}

\* fill / stroke with a non-empty style input, past resolve
StyledCall == Painting /\ Len(Flat(input)) > 0 /\ pc \notin {"idle", "resolve"}

\* fill([]) / stroke([])
EmptyCall == Painting /\ Len(Flat(input)) = 0

\* fill / stroke has been left, by return or by an exception
Left == pc \in {"done", "failed"}

\* the primitive of the running function
Primitive == IF op = "fill" THEN "fill()" ELSE "stroke()"

\* C1: for a non-empty style input, no execution of fill / stroke ends with a
\* save() that has no matching restore(), also when a primitive or an
\* assignment fails.
C1_SaveRestored ==
    (StyledCall /\ Left) =>
        /\ NumCalls("save()") = NumCalls("restore()")
        /\ stack = <<>>

\* C5: every value that fill / stroke assign to the context is the value held by
\* the first style, in resolved order, that defines the property (undefined when
\* no style does), and no other value of the property in a style positioned
\* later in the resolved list changes the lookup.
C5_FirstMatch ==
    StyledCall =>
        /\ \A k \in 1..Len(log) :
              log[k].name \in Fields =>
                  LET prop == PropOf(log[k].name)
                  IN  /\ log[k].value = FirstDefined(styles, prop)
                      /\ Definers(styles, prop) # {} =>
                            \A j \in (FirstDefiner(styles, prop) + 1)..Len(styles) :
                                \A v \in {"other", Undefined} :
                                    Scan(Changed(styles[j], prop, v), styles, 1, prop)
                                        = log[k].value
        /\ (pc = "done" /\ op = "fill") =>
              /\ NumCalls("fillStyle") = 1
              /\ NumCalls("globalAlpha") = 1
              /\ NumCalls("globalCompositeOperation") = 1

\* fill(A) with A = {paint:"blue", use:[B]}, B = {paint:"red", alpha:0.5} has
\* set fillStyle to "blue" and globalAlpha to 0.5
C5_Witness ==
    /\ op = "fill" /\ pc = "done"
    /\ props = ScenarioProps
    /\ Flat(input) = <<"a">>
    /\ styles = <<"a", "b">>
    /\ \E k \in Calls("fillStyle") : log[k].value = "blue"
    /\ \E k \in Calls("globalAlpha") : log[k].value = "0.5"

\* C6: fill([]) and stroke([]) perform the draw primitive, exactly once,
\* without save() or restore(), and stroke([]) never invokes clip().
C6_EmptyDraws ==
    EmptyCall =>
        /\ NumCalls("save()") = 0
        /\ NumCalls("restore()") = 0
        /\ NumCalls("clip()") = 0
        /\ stack = <<>>
        /\ NumCalls(Primitive) <= 1
        /\ NumCalls(IF op = "fill" THEN "stroke()" ELSE "fill()") = 0
        /\ pc = "done" => NumCalls(Primitive) = 1

\* stroke([]) has returned
C6_Witness ==
    /\ EmptyCall
    /\ op = "stroke"
    /\ pc = "done"
    /\ NumCalls("stroke()") = 1

\* C7: with an empty style input the properties of the context hold the same
\* values after the call, and at the moment the primitive runs, as before.
C7_AmbientKept ==
    EmptyCall =>
        /\ ctx = ctx0
        /\ \A k \in Calls(Primitive) : log[k].state = ctx0

\* C8: stroke with a non-empty input whose resolved "clip" is truthy invokes
\* clip() exactly once and before stroke(), the stroke paint, line width, line
\* cap, line join and miter limit being set before both; when the resolved
\* "clip" is falsy or absent, clip() is never invoked.
C8_ClipBeforeStroke ==
    (StyledCall /\ op = "stroke") =>
        /\ NumCalls("stroke()") <= 1
        /\ \A k \in Calls("clip()") \cup Calls("stroke()") :
              \A f \in StrokeFields :
                  /\ \E j \in 1..(k - 1) :
                        log[j].name = f /\ log[j].value = FirstDefined(styles, PropOf(f))
                  /\ log[k].state[f] = FirstDefined(styles, PropOf(f))
        /\ IF Truthy(FirstDefined(styles, "clip"))
           THEN /\ NumCalls("clip()") <= 1
                /\ \A k \in Calls("stroke()") : \E j \in 1..(k - 1) : log[j].name = "clip()"
                /\ pc = "done" => NumCalls("clip()") = 1
           ELSE NumCalls("clip()") = 0

\* stroke([{paint:"red", width:2, clip:true}]) has clipped, then stroked, with
\* stroke paint "red" and line width 2
C8_Witness ==
    /\ op = "stroke" /\ pc = "done"
    /\ props = ScenarioProps
    /\ input = [isArray |-> TRUE, style |-> Undefined, items |-> <<"c">>]
    /\ styles = <<"c">>
    /\ \E j \in Calls("clip()") : \E k \in Calls("stroke()") :
          /\ j < k
          /\ log[j].state.strokeStyle = "red" /\ log[j].state.lineWidth = "2"
          /\ log[k].state.strokeStyle = "red" /\ log[k].state.lineWidth = "2"

\* C9: a fill / stroke call with a non-empty input that completes applies the
\* resolved opacity and composite mode after save() and before the primitive,
\* invokes save() and restore() once each, in that order, and leaves the
\* context in the state it had before the call.
C9_ScopedState ==
    (StyledCall /\ pc = "done") =>
        /\ ctx = ctx0
        /\ stack = <<>>
        /\ NumCalls("save()") = 1
        /\ NumCalls("restore()") = 1
        /\ NumCalls(Primitive) = 1
        /\ \E s \in Calls("save()") : \E a \in Calls("globalAlpha") :
           \E b \in Calls("globalCompositeOperation") : \E d \in Calls(Primitive) :
           \E r \in Calls("restore()") :
              /\ s < a /\ s < b /\ a < d /\ b < d /\ d < r
              /\ log[s].state = ctx0
              /\ log[a].value = FirstDefined(styles, "alpha")
              /\ log[b].value = FirstDefined(styles, "blendMode")
              /\ log[d].state.globalAlpha = FirstDefined(styles, "alpha")
              /\ log[d].state.globalCompositeOperation = FirstDefined(styles, "blendMode")

\* fill([{alpha:0.5}]) on a context of opacity 0.8 has filled with opacity 0.5
\* and left the context with opacity 0.8
C9_Witness ==
    /\ op = "fill" /\ pc = "done"
    /\ props = OtherProps
    /\ Flat(input) = <<"a">>
    /\ styles = <<"a">>
    /\ ctx0.globalAlpha = "0.8"
    /\ \E d \in Calls("fill()") : log[d].state.globalAlpha = "0.5"
    /\ ctx.globalAlpha = "0.8"

(***************************************************************************)
(* The texture property                                                    *)
(***************************************************************************)
\* C10: the renderer is constructed lazily on the first generateCanvasTexture
\* call and at most once: none exists before the first call, and every later
\* call renders through the instance the first call created.
C10_LazySingleton ==
    /\ constructed <= 1
    /\ renders = <<>> => (canvasRenderer = 0 /\ constructed = 0)
    /\ renders # <<>> =>
          /\ renders[1].created
          /\ canvasRenderer = renders[1].renderer
          /\ canvasRenderer # 0
          /\ \A k \in 2..Len(renders) :
                /\ ~renders[k].created
                /\ renders[k].renderer = renders[1].renderer

\* two graphics objects have been rendered, one after the other
C10_Witness ==
    /\ Len(renders) >= 2
    /\ renders[1].graphics # renders[2].graphics
    /\ renders[2].renderer = canvasRenderer

====
